---- MODULE Spec2Model ----
(***************************************************************************)
(* Model of gst_app.py: the three GST conversions (calc_from_excluded,     *)
(* calc_from_included, calc_from_gst_amount), the session history          *)
(* (add_history, Clear History) and the exports (history_to_csv,           *)
(* history_to_txt, the full history table with its HTML export).           *)
(*                                                                         *)
(* Python floats are IEEE-754 binary64.  They are modelled bit-exactly for *)
(* the non-negative finite normal range the program works in: a float is   *)
(* [m |-> mantissa, e |-> exponent] with value m * 2^e, where m is a       *)
(* natural number of exactly 53 bits (or zero) held as a little-endian     *)
(* sequence of 15-bit limbs, and every arithmetic operation rounds its     *)
(* exact result to nearest, ties to even, as the hardware does.            *)
(***************************************************************************)
EXTENDS Integers, Sequences, FiniteSets, TLC

(***************************************************************************)
(* Natural numbers of arbitrary size: little-endian limbs in 0..Base-1,    *)
(* no leading zero limb, zero is << >>.                                    *)
(***************************************************************************)
LimbBits == 15
Base == 32768
MantBits == 53

RECURSIVE Pow2(_)
Pow2(k) == IF k = 0 THEN 1 ELSE 2 * Pow2(k - 1)

RECURSIVE BNorm(_)
BNorm(a) ==
    IF a = << >> THEN << >>
    ELSE IF a[Len(a)] = 0 THEN BNorm(SubSeq(a, 1, Len(a) - 1))
    ELSE a

RECURSIVE BFromInt(_)
BFromInt(n) == IF n = 0 THEN << >> ELSE <<n % Base>> \o BFromInt(n \div Base)

RECURSIVE BAddC(_, _, _)
BAddC(a, b, c) ==
    IF a = << >> /\ b = << >> THEN (IF c = 0 THEN << >> ELSE <<c>>)
    ELSE LET x == IF a = << >> THEN 0 ELSE Head(a)
             y == IF b = << >> THEN 0 ELSE Head(b)
             s == x + y + c
         IN  <<s % Base>> \o BAddC(IF a = << >> THEN a ELSE Tail(a),
                                   IF b = << >> THEN b ELSE Tail(b),
                                   s \div Base)

BAdd(a, b) == BAddC(a, b, 0)

\* a - b for a >= b
RECURSIVE BSubC(_, _, _)
BSubC(a, b, c) ==
    IF a = << >> THEN << >>
    ELSE LET y == IF b = << >> THEN 0 ELSE Head(b)
             d == Head(a) - y - c
         IN  <<IF d < 0 THEN d + Base ELSE d>>
             \o BSubC(Tail(a), IF b = << >> THEN b ELSE Tail(b),
                      IF d < 0 THEN 1 ELSE 0)

BSub(a, b) == BNorm(BSubC(a, b, 0))

\* -1, 0, 1 as a < b, a = b, a > b
RECURSIVE BCmpFrom(_, _, _)
BCmpFrom(a, b, i) ==
    IF i = 0 THEN 0
    ELSE IF a[i] < b[i] THEN -1
    ELSE IF a[i] > b[i] THEN 1
    ELSE BCmpFrom(a, b, i - 1)

BCmp(a, b) ==
    IF Len(a) < Len(b) THEN -1
    ELSE IF Len(a) > Len(b) THEN 1
    ELSE BCmpFrom(a, b, Len(a))

\* a * k for 0 <= k < Base
RECURSIVE BMulSmallC(_, _, _)
BMulSmallC(a, k, c) ==
    IF a = << >> THEN (IF c = 0 THEN << >> ELSE <<c>>)
    ELSE LET p == Head(a) * k + c
         IN  <<p % Base>> \o BMulSmallC(Tail(a), k, p \div Base)

BMulSmall(a, k) == IF k = 0 THEN << >> ELSE BMulSmallC(a, k, 0)

RECURSIVE BMul(_, _)
BMul(a, b) ==
    IF a = << >> \/ b = << >> THEN << >>
    ELSE BAdd(BMulSmall(a, Head(b)),
              LET r == BMul(a, Tail(b)) IN IF r = << >> THEN r ELSE <<0>> \o r)

Zeros(n) == [i \in 1..n |-> 0]

\* a * 2^n
BShl(a, n) ==
    IF a = << >> THEN << >>
    ELSE Zeros(n \div LimbBits) \o BMulSmall(a, Pow2(n % LimbBits))

\* floor(a / 2^k) for 0 <= k < LimbBits, limb by limb from the top
RECURSIVE BShrSmallFrom(_, _, _, _)
BShrSmallFrom(a, k, i, hi) ==
    IF i = 0 THEN << >>
    ELSE LET cur == hi * Base + a[i]
             \* hi < 2^k, so cur < 2^(k+15)
             q == cur \div Pow2(k)
         IN  BShrSmallFrom(a, k, i - 1, cur % Pow2(k)) \o <<q>>

\* floor(a / 2^n)
BShr(a, n) ==
    LET w == n \div LimbBits
    IN  IF w >= Len(a) THEN << >>
        ELSE BNorm(BShrSmallFrom(SubSeq(a, w + 1, Len(a)), n % LimbBits,
                                  Len(a) - w, 0))

\* a mod 2^n
BLow(a, n) == BSub(a, BShl(BShr(a, n), n))

RECURSIVE IntBitLen(_)
IntBitLen(n) == IF n = 0 THEN 0 ELSE 1 + IntBitLen(n \div 2)

BBitLen(a) ==
    IF a = << >> THEN 0 ELSE LimbBits * (Len(a) - 1) + IntBitLen(a[Len(a)])

BOdd(a) == a # << >> /\ a[1] % 2 = 1

(***************************************************************************)
(* Python float: binary64, round to nearest, ties to even.                 *)
(***************************************************************************)
FZero == [m |-> << >>, e |-> 0]

\* The float nearest to n * 2^e (plus a nonzero amount below the last bit
\* of n when sticky), n a natural number.
Round53(n, e, sticky) ==
    LET len == BBitLen(n)
    IN  IF n = << >> THEN FZero
        ELSE IF len <= MantBits
        THEN [m |-> BShl(n, MantBits - len), e |-> e - (MantBits - len)]
        ELSE LET s == len - MantBits
                 q == BShr(n, s)
                 r == BLow(n, s)
                 c == BCmp(r, BShl(<<1>>, s - 1))
                 up == c > 0 \/ (c = 0 /\ (sticky \/ BOdd(q)))
                 q1 == IF up THEN BAdd(q, <<1>>) ELSE q
             IN  IF BBitLen(q1) > MantBits
                 THEN [m |-> BShr(q1, 1), e |-> e + s + 1]
                 ELSE [m |-> q1, e |-> e + s]

\* float(n) for an int n >= 0 given as limbs
FFromBig(n) == Round53(n, 0, FALSE)

FFromInt(n) == FFromBig(BFromInt(n))

Min(a, b) == IF a < b THEN a ELSE b

\* x * y
FMul(x, y) == Round53(BMul(x.m, y.m), x.e + y.e, FALSE)

\* x + y
FAdd(x, y) ==
    IF x.m = << >> THEN y
    ELSE IF y.m = << >> THEN x
    ELSE LET e0 == Min(x.e, y.e)
         IN  Round53(BAdd(BShl(x.m, x.e - e0), BShl(y.m, y.e - e0)), e0, FALSE)

\* exact comparison of the values: -1, 0, 1
FCmp(x, y) ==
    IF x.m = << >> \/ y.m = << >>
    THEN (IF x.m = y.m THEN 0 ELSE IF x.m = << >> THEN -1 ELSE 1)
    ELSE LET e0 == Min(x.e, y.e)
         IN  BCmp(BShl(x.m, x.e - e0), BShl(y.m, y.e - e0))

\* x - y for x >= y (the program never subtracts to below zero)
FSub(x, y) ==
    IF y.m = << >> THEN x
    ELSE LET e0 == Min(x.e, y.e)
         IN  Round53(BSub(BShl(x.m, x.e - e0), BShl(y.m, y.e - e0)), e0, FALSE)

\* One digit of long division in base Base: quotient digit and remainder
\* of r * Base by d, for r < d and d's top limb at least Base / 2.  The
\* digit is estimated from the two top limbs and is at most 2 too large.
RECURSIVE BFixDigit(_, _, _)
BFixDigit(rb, d, q) ==
    IF BCmp(BMulSmall(d, q), rb) > 0 THEN BFixDigit(rb, d, q - 1) ELSE q

BDivDigit(r, d) ==
    LET n == Len(d)
        rb == IF r = << >> THEN r ELSE <<0>> \o r
        hi == IF Len(rb) > n THEN rb[n + 1] ELSE 0
        lo == IF Len(rb) >= n THEN rb[n] ELSE 0
        q == BFixDigit(rb, d, Min(Base - 1, (hi * Base + lo) \div d[n]))
    IN  [q |-> q, r |-> BSub(rb, BMulSmall(d, q))]

\* k digits: quotient (k limbs, most significant last) and remainder of
\* r * Base^k by d
RECURSIVE BDivDigits(_, _, _)
BDivDigits(r, d, k) ==
    IF k = 0 THEN [q |-> << >>, r |-> r]
    ELSE LET top == BDivDigit(r, d)
             rest == BDivDigits(top.r, d, k - 1)
         IN  [q |-> rest.q \o <<top.q>>, r |-> rest.r]

\* x / y for y # 0.  Both mantissas have 53 bits, so x.m / y.m lies in
\* (1/2, 2); they are shifted to fill whole limbs, and QDigits further
\* digits of the quotient leave more than 55 bits to round.
QDigits == 4
FDiv(x, y) ==
    IF x.m = << >> THEN FZero
    ELSE LET sh == QDigits * LimbBits - MantBits
             n == BShl(x.m, sh)
             d == BShl(y.m, sh)
             ge == BCmp(n, d) >= 0
             dv == BDivDigits(IF ge THEN BSub(n, d) ELSE n, d, QDigits)
             q == BNorm(IF ge THEN dv.q \o <<1>> ELSE dv.q)
         IN  Round53(q, x.e - y.e - QDigits * LimbBits, dv.r # << >>)

\* round(x) with ties rounded up instead of to the even int
PyRound_half_up(x) ==
    IF x.m = << >> THEN << >>
    ELSE IF x.e >= 0 THEN BShl(x.m, x.e)
    ELSE LET s == 0 - x.e
             q == BShr(x.m, s)
         IN  IF BCmp(BLow(x.m, s), BShl(<<1>>, s - 1)) >= 0
             THEN BAdd(q, <<1>>) ELSE q

\* round(x): the nearest int, ties to the even one, as limbs
PyRound(x) ==
    IF x.m = << >> THEN << >>
    ELSE IF x.e >= 0 THEN BShl(x.m, x.e)
    ELSE LET s == 0 - x.e
             q == BShr(x.m, s)
             c == BCmp(BLow(x.m, s), BShl(<<1>>, s - 1))
             up == c > 0 \/ (c = 0 /\ BOdd(q))
         IN  IF up THEN BAdd(q, <<1>>) ELSE q

(***************************************************************************)
(* Helper functions of gst_app.py.  None is Python's None; a conversion    *)
(* returns its tuple in the order the source returns it.                   *)
(***************************************************************************)
None == [none |-> TRUE]

\* `if rounding:` is false for None and for 0.0
Truthy(rounding) == rounding # None /\ rounding.m # << >>

\* round(x / rounding) * rounding
RoundTo(x, rounding) == FMul(FFromBig(PyRound(FDiv(x, rounding))), rounding)

\* if rounding: x = round(x / rounding) * rounding
IfRounding(x, rounding) == IF Truthy(rounding) THEN RoundTo(x, rounding) ELSE x

Two == FFromInt(2)
One == FFromInt(1)

\* Each conversion is written as the chain of its assignments: a step
\* takes the values computed so far and passes them on.

\* lines 24-26: cgst, sgst and the returned tuple
IncludedSplit(base, gst, total_price) ==
    <<base, gst, FDiv(gst, Two), FDiv(gst, Two), total_price>>

\* gst taken from the rounded base instead of being rounded on its own
IncludedRound_gst_from_rounded_base(total_price, base, rounding) ==
    IncludedSplit(IfRounding(base, rounding),
                  FSub(total_price, IfRounding(base, rounding)), total_price)

\* lines 20-23: gst, then both rounded
IncludedRound(total_price, base, rounding) ==
    IncludedSplit(IfRounding(base, rounding),
                  IfRounding(FSub(total_price, base), rounding), total_price)

\* base taken as total * (1 - rate) instead of total / (1 + rate)
calc_from_included_discount(total_price, rate, rounding) ==
    IncludedRound(total_price, FMul(total_price, FSub(One, rate)), rounding)

\* lines 17-19: the clamp of a negative rate, then base
calc_from_included(total_price, rate, rounding) ==
    IncludedRound(total_price,
                  FDiv(total_price,
                       FAdd(One, IF FCmp(rate, FZero) < 0 THEN FZero ELSE rate)),
                  rounding)

\* lines 38-40
ExcludedSplit(total, gst, base_price) ==
    <<total, gst, FDiv(gst, Two), FDiv(gst, Two), base_price>>

\* lines 34-37: total, then gst and total rounded
ExcludedRound(base_price, gst, rounding) ==
    ExcludedSplit(IfRounding(FAdd(base_price, gst), rounding),
                  IfRounding(gst, rounding), base_price)

\* the rate taken as a percentage and divided by 100 once more
calc_from_excluded_percent(base_price, rate, rounding) ==
    ExcludedRound(base_price, FMul(base_price, FDiv(rate, FFromInt(100))), rounding)

\* line 33
calc_from_excluded(base_price, rate, rounding) ==
    ExcludedRound(base_price, FMul(base_price, rate), rounding)

\* the returned gst rounded too, the split still of the input
GstAmountRound_rounded_gst(gst_amount, base, rounding) ==
    <<IfRounding(base, rounding), IfRounding(FAdd(base, gst_amount), rounding),
      FDiv(gst_amount, Two), FDiv(gst_amount, Two), IfRounding(gst_amount, rounding)>>

\* total taken from the rounded base
GstAmountRound_total_from_rounded_base(gst_amount, base, rounding) ==
    <<IfRounding(base, rounding),
      IfRounding(FAdd(IfRounding(base, rounding), gst_amount), rounding),
      FDiv(gst_amount, Two), FDiv(gst_amount, Two), gst_amount>>

\* lines 48-54: total, base and total rounded, the split of gst_amount
GstAmountRound(gst_amount, base, rounding) ==
    <<IfRounding(base, rounding), IfRounding(FAdd(base, gst_amount), rounding),
      FDiv(gst_amount, Two), FDiv(gst_amount, Two), gst_amount>>

\* line 47
calc_from_gst_amount(gst_amount, rate, rounding) ==
    GstAmountRound(gst_amount,
                   IF rate.m # << >> THEN FDiv(gst_amount, rate) ELSE FZero,
                   rounding)

(***************************************************************************)
(* Session state and the page.  One action is one run of the script, from  *)
(* the widget event that triggers it to the end of the page.               *)
(***************************************************************************)
VARIABLES
    hasHistory,      \* "history" in st.session_state
    history,         \* st.session_state.history, newest first
    mode,            \* the Calculation Mode radio
    rate_pct,        \* the GST Rate (%) selectbox
    rounding_choice, \* the Rounding selectbox
    amount,          \* the number input of the current mode, in 1/100 rupee
    now,             \* the wall clock, in seconds
    call,            \* the conversion this run made: function, arguments, result
    panel,           \* csv_data, txt_data of the History panel (lines 146-147)
    table,           \* the exports of the full history table (lines 261-278)
    leg2,            \* a conversion applied to the result of call
    event,           \* the widget that triggered this run, and the length of
                     \* the history when the run began
    log,             \* entries recorded since the history was last empty
    changes          \* widget and clock events so far

vars == <<hasHistory, history, mode, rate_pct, rounding_choice, amount, now,
          call, panel, table, leg2, event, log, changes>>

\* Bounds of the model
MaxRecords == 11
MaxChanges == 1
MaxSmallPaise == 12

HistoryCap == 10
Hundred == FFromInt(100)
Half == FDiv(One, Two)

ModeOptions == <<"Excluding", "Including", "Reverse">>
RateOptions == <<5, 12, 18, 28>>
RoundingOptions == <<"No rounding", "Round to 1", "Round to 0.50">>
\* index=0 of the radio and of Rounding, default_rate, min_value
DefaultRate == 18
DefaultAmount == 0

Range(f) == {f[i] : i \in DOMAIN f}

rounding_map(choice) ==
    CASE choice = "No rounding" -> None
      [] choice = "Round to 1" -> One
      [] choice = "Round to 0.50" -> Half

\* rate_pct / 100.0
Rate(pct) == FDiv(FFromInt(pct), Hundred)

\* the float a number input holds for an amount typed with two decimals
Amount(paise) == FDiv(FFromInt(paise), Hundred)

\* h[:n]
Slice(h, n) == SubSeq(h, 1, Min(n, Len(h)))

\* add_history without the cut to 10
add_history_no_cut(has, h, entry) == <<entry>> \o (IF has THEN h ELSE << >>)

\* add_history with append in place of insert(0, entry)
add_history_append(has, h, entry) ==
    Slice((IF has THEN h ELSE << >>) \o <<entry>>, HistoryCap)

\* add_history: the history after insert(0, entry) and the cut to 10
add_history(has, h, entry) ==
    Slice(<<entry>> \o (IF has THEN h ELSE << >>), HistoryCap)

\* history_to_csv without its check for an empty history
history_to_csv_unguarded(has, h) == [lines |-> 1 + Len(h)]

\* The exports return None or the payload, modelled by its line structure:
\* the CSV has a header line and a line per entry, the TXT a line per entry.
history_to_csv(has, h) ==
    IF ~has \/ h = << >> THEN None ELSE [lines |-> 1 + Len(h)]

history_to_txt(has, h) ==
    IF ~has \/ h = << >> THEN None ELSE [lines |-> Len(h)]

HistoryPanel(has, h) ==
    [csv |-> history_to_csv(has, h), txt |-> history_to_txt(has, h)]

\* Full history table: None when the page shows "No records saved yet."
FullTable(has, h) ==
    IF has /\ h # << >>
    THEN [csv |-> history_to_csv(has, h), txt |-> history_to_txt(has, h),
          html |-> [rows |-> Len(h)]]
    ELSE None

NoCall == [fn |-> "none", args |-> << >>, out |-> << >>]

Entry(m, base, gst, cgst, sgst, total) ==
    [timestamp |-> now, mode |-> m, rate_pct |-> rate_pct,
     base |-> base, gst |-> gst, cgst |-> cgst, sgst |-> sgst, total |-> total]

Event(widget) == [widget |-> widget, before |-> Len(history)]

\* The rest of a run whose button handler recorded entry
Recorded(entry) ==
    /\ Len(log) < MaxRecords
    /\ panel' = HistoryPanel(hasHistory, history)
    /\ history' = add_history(hasHistory, history, entry)
    /\ hasHistory' = TRUE
    /\ table' = FullTable(TRUE, history')
    /\ log' = Append(log, entry)
    /\ UNCHANGED <<mode, rate_pct, rounding_choice, amount, now, leg2, changes>>

\* A run that records nothing: both export places render the history as it is
Rerun(has, h) ==
    /\ panel' = HistoryPanel(has, h)
    /\ table' = FullTable(has, h)

\* the arguments every handler passes: input, rate, rounding
Inputs == <<Amount(amount), Rate(rate_pct), rounding_map(rounding_choice)>>

\* lines 196-211
ShowExcl(args, out) ==
    /\ event' = Event("Calculate (Excl GST)")
    /\ call' = [fn |-> "calc_from_excluded", args |-> args, out |-> out]
    /\ Recorded(Entry("Excl -> Incl", out[5], out[2], out[3], out[4], out[1]))

HandleExcl(args) == ShowExcl(args, calc_from_excluded(args[1], args[2], args[3]))

\* "Calculate (Excl GST)"
CalculateExcl ==
    /\ mode = "Excluding"
    /\ HandleExcl(Inputs)

\* lines 216-230
ShowIncl(args, out) ==
    /\ event' = Event("Calculate (Incl GST)")
    /\ call' = [fn |-> "calc_from_included", args |-> args, out |-> out]
    /\ Recorded(Entry("Incl -> Excl", out[1], out[2], out[3], out[4], out[5]))

HandleIncl(args) == ShowIncl(args, calc_from_included(args[1], args[2], args[3]))

\* "Calculate (Incl GST)"
CalculateIncl ==
    /\ mode = "Including"
    /\ HandleIncl(Inputs)

\* lines 238-252
ShowFromGst(args, out) ==
    /\ event' = Event("Calculate from GST amount")
    /\ call' = [fn |-> "calc_from_gst_amount", args |-> args, out |-> out]
    /\ Recorded(Entry("Reverse (GST->Base)", out[1], out[5], out[3], out[4], out[2]))

\* lines 235-237: rate == 0 shows the error and records nothing
HandleFromGst(args) ==
    IF args[2].m = << >>
    THEN /\ call' = [fn |-> "st.error", args |-> args, out |-> << >>]
         /\ event' = Event("Calculate from GST amount")
         /\ Rerun(hasHistory, history)
         /\ UNCHANGED <<hasHistory, history, mode, rate_pct, rounding_choice,
                        amount, now, leg2, log, changes>>
    ELSE ShowFromGst(args, calc_from_gst_amount(args[1], args[2], args[3]))

\* "Calculate from GST amount"
CalculateFromGst ==
    /\ mode = "Reverse"
    /\ HandleFromGst(Inputs)

\* "Clear History", then the rerun it asks for
ClearHistory ==
    /\ event' = Event("Clear History")
    /\ history' = << >>
    /\ hasHistory' = TRUE
    /\ Rerun(TRUE, << >>)
    /\ call' = NoCall
    /\ log' = << >>
    /\ UNCHANGED <<mode, rate_pct, rounding_choice, amount, now, leg2, changes>>

\* A widget event reruns the script with no button pressed
Changed(widget) ==
    /\ changes < MaxChanges
    /\ event' = Event(widget)
    /\ changes' = changes + 1
    /\ Rerun(hasHistory, history)
    /\ call' = NoCall
    /\ UNCHANGED <<hasHistory, history, leg2, log>>

\* the number input of another mode starts at its min_value
SelectMode ==
    /\ \E m \in Range(ModeOptions) \ {mode} : mode' = m
    /\ amount' = DefaultAmount
    /\ Changed("Calculation Mode")
    /\ UNCHANGED <<rate_pct, rounding_choice, now>>

SelectRate ==
    /\ \E p \in Range(RateOptions) \ {rate_pct} : rate_pct' = p
    /\ Changed("GST Rate (%)")
    /\ UNCHANGED <<mode, rounding_choice, amount, now>>

SelectRounding ==
    /\ \E c \in Range(RoundingOptions) \ {rounding_choice} : rounding_choice' = c
    /\ Changed("Rounding")
    /\ UNCHANGED <<mode, rate_pct, amount, now>>

SessionAmounts == {DefaultAmount, 10000}

EnterAmount ==
    /\ \E a \in SessionAmounts \ {amount} : amount' = a
    /\ Changed("number_input")
    /\ UNCHANGED <<mode, rate_pct, rounding_choice, now>>

\* a second passes
Tick ==
    /\ changes < MaxChanges
    /\ changes' = changes + 1
    /\ now' = now + 1
    /\ UNCHANGED <<hasHistory, history, mode, rate_pct, rounding_choice, amount,
                   call, panel, table, leg2, event, log>>

Init ==
    /\ hasHistory = FALSE
    /\ history = << >>
    /\ mode = ModeOptions[1]
    /\ rate_pct = DefaultRate
    /\ rounding_choice = RoundingOptions[1]
    /\ amount = DefaultAmount
    /\ now = 0
    /\ call = NoCall
    /\ panel = HistoryPanel(FALSE, << >>)
    /\ table = FullTable(FALSE, << >>)
    /\ leg2 = NoCall
    /\ event = [widget |-> "none", before |-> 0]
    /\ log = << >>
    /\ changes = 0

Next ==
    \/ CalculateExcl
    \/ CalculateIncl
    \/ CalculateFromGst
    \/ ClearHistory
    \/ SelectMode
    \/ SelectRate
    \/ SelectRounding
    \/ EnterAmount
    \/ Tick

Spec == Init /\ [][Next]_vars

(***************************************************************************)
(* The conversions on their own: the arguments are drawn from bounded      *)
(* sets, one of the three functions is applied to them, and                *)
(* calc_from_included may then be applied to the total that                *)
(* calc_from_excluded returned.                                            *)
(***************************************************************************)
Landmarks == {84, 1000, 1800, 1875, 3000, 10000, 11800}
CalcAmounts == (0..MaxSmallPaise) \cup Landmarks
CalcRates == {0} \cup Range(RateOptions)
CalcRoundings == {None, FZero, One, Half}

InitCalc ==
    /\ hasHistory = FALSE
    /\ history = << >>
    /\ mode = ModeOptions[1]
    /\ rate_pct = DefaultRate
    /\ rounding_choice = RoundingOptions[1]
    /\ amount = DefaultAmount
    /\ now = 0
    /\ \E a \in CalcAmounts, p \in CalcRates, r \in CalcRoundings :
          call = [fn |-> "none", args |-> <<Amount(a), Rate(p), r>>, out |-> << >>]
    /\ panel = HistoryPanel(FALSE, << >>)
    /\ table = FullTable(FALSE, << >>)
    /\ leg2 = NoCall
    /\ event = [widget |-> "none", before |-> 0]
    /\ log = << >>
    /\ changes = 0

Applied(fn, args, out) == [fn |-> fn, args |-> args, out |-> out]

Session == <<hasHistory, history, mode, rate_pct, rounding_choice, amount, now,
             panel, table, event, log, changes>>

CallExcluded ==
    /\ call.fn = "none"
    /\ call' = Applied("calc_from_excluded", call.args,
                       calc_from_excluded(call.args[1], call.args[2], call.args[3]))
    /\ UNCHANGED <<Session, leg2>>

CallIncluded ==
    /\ call.fn = "none"
    /\ call' = Applied("calc_from_included", call.args,
                       calc_from_included(call.args[1], call.args[2], call.args[3]))
    /\ UNCHANGED <<Session, leg2>>

CallGstAmount ==
    /\ call.fn = "none"
    /\ call' = Applied("calc_from_gst_amount", call.args,
                       calc_from_gst_amount(call.args[1], call.args[2], call.args[3]))
    /\ UNCHANGED <<Session, leg2>>

\* FromIncluded(FromExcluded(base, rate, rounding).total, rate, rounding)
RoundTrip ==
    /\ call.fn = "calc_from_excluded"
    /\ leg2.fn = "none"
    /\ leg2' = Applied("calc_from_included",
                       <<call.out[1], call.args[2], call.args[3]>>,
                       calc_from_included(call.out[1], call.args[2], call.args[3]))
    /\ UNCHANGED <<Session, call>>

NextCalc ==
    \/ CallExcluded
    \/ CallIncluded
    \/ CallGstAmount
    \/ RoundTrip

SpecCalc == InitCalc /\ [][NextCalc]_vars

(***************************************************************************)
(* The history ledger, under Spec                                          *)
(***************************************************************************)

\* C1: in every reachable state of a session (any interleaving of
\* calculations that record, Clear History and the exports every run
\* renders) the history holds at most 10 entries.
C1_HistoryAtMostTen == Len(history) <= HistoryCap

\* an 11th entry was recorded into a full history
C1_Witness == Len(log) = HistoryCap + 1 /\ Len(history) = HistoryCap

\* C2: after n records since the history was last empty it holds exactly
\* the min(n, 10) most recently recorded entries, the most recent first;
\* after 11 records its length is 10, the 11th is at the front and the
\* first is gone.
C2_NewestFirstEvictOldest ==
    /\ Len(history) = Min(Len(log), HistoryCap)
    /\ \A i \in 1..Len(history) : history[i] = log[Len(log) + 1 - i]

\* 11 records, the first of them unlike the others and evicted
C2_Witness ==
    /\ Len(log) = HistoryCap + 1
    /\ Len(history) = HistoryCap
    /\ history[1] = log[HistoryCap + 1]
    /\ history[HistoryCap] = log[2]
    /\ \A i \in 1..Len(history) : history[i] # log[1]

\* C3: Clear History leaves the history with length 0, and whenever the
\* history is empty every export is absent: csv_data and txt_data are None
\* and the full history table with its CSV, TXT and HTML exports is not
\* rendered.
C3_ClearThenExportsAbsent ==
    /\ event.widget = "Clear History" => Len(history) = 0
    /\ Len(history) = 0 =>
          /\ panel.csv = None
          /\ panel.txt = None
          /\ table = None

\* Clear History pressed on a history of 10 entries
C3_Witness ==
    /\ event.widget = "Clear History"
    /\ event.before = HistoryCap
    /\ Len(history) = 0
    /\ panel = [csv |-> None, txt |-> None]
    /\ table = None

(***************************************************************************)
(* The conversions, under SpecCalc.  The statements below use exact        *)
(* arithmetic on the values of floats: a pair [m, e] is the number         *)
(* m * 2^e, with any natural number m.                                     *)
(***************************************************************************)

\* |x - y|, exactly
AbsDiff(x, y) ==
    LET e0 == Min(x.e, y.e)
        a == BShl(x.m, x.e - e0)
        b == BShl(y.m, y.e - e0)
    IN  [m |-> IF BCmp(a, b) >= 0 THEN BSub(a, b) ELSE BSub(b, a), e |-> e0]

\* x * 2^k, exactly
Scale(x, k) == [m |-> x.m, e |-> x.e + k]

FMax(x, y) == IF FCmp(x, y) >= 0 THEN x ELSE y

\* x and y agree to a relative error of 2^-40
Close(x, y) == FCmp(Scale(AbsDiff(x, y), 40), FMax(x, y)) <= 0

\* res = n * r exactly, for the natural number n
IsMultiple(res, n, r) == FCmp([m |-> BMul(n, r.m), e |-> r.e], res) = 0

\* res is the multiple of r nearest to x, the even multiple when x lies
\* halfway between two
NearestMultiple(res, x, r) ==
    LET n == PyRound(FDiv(res, r))
        d2 == Scale(AbsDiff(res, x), 1)
    IN  /\ IsMultiple(res, n, r)
        /\ FCmp(d2, r) <= 0
        /\ FCmp(d2, r) = 0 => ~BOdd(n)

\* x, or the nearest multiple of rounding when rounding is 1.0 or 0.5
Snapped(res, x, rounding) ==
    IF rounding \in {One, Half} THEN NearestMultiple(res, x, rounding) ELSE res = x

\* C4: calc_from_gst_amount invoked with rate == 0 signals an error to its
\* caller instead of returning a result with base 0, and the history is
\* left as it was.
C4_ZeroRateSignalled ==
    (call.fn = "calc_from_gst_amount" /\ call.args[2] = FZero) =>
        /\ call.out = << >>
        /\ history = << >>

\* C5: whichever conversion ran, cgst and sgst are equal and their float
\* sum is exactly the returned gst.
C5_SplitAddsUp ==
    /\ call.fn \in {"calc_from_excluded", "calc_from_included"} =>
          /\ call.out[3] = call.out[4]
          /\ FAdd(call.out[3], call.out[4]) = call.out[2]
    /\ call.fn = "calc_from_gst_amount" =>
          /\ call.out[3] = call.out[4]
          /\ FAdd(call.out[3], call.out[4]) = call.out[5]

\* 18.75 at 28% rounded to 0.5: gst 5.5, split 2.75 and 2.75
C5_Witness ==
    /\ call.fn = "calc_from_excluded"
    /\ call.args = <<Amount(1875), Rate(28), Half>>
    /\ call.out[2] = FDiv(FFromInt(11), Two)
    /\ call.out[3] = FDiv(FFromInt(11), FFromInt(4))

\* C6: with rounding disabled calc_from_excluded returns
\* gst = base * rate and total = base + gst (float product and sum), and
\* base as it was passed.
C6_ExcludedUnrounded ==
    (call.fn = "calc_from_excluded" /\ call.args[3] = None) =>
        /\ call.out[2] = FMul(call.args[1], call.args[2])
        /\ call.out[1] = FAdd(call.args[1], call.out[2])
        /\ call.out[5] = call.args[1]

\* 100.00 at 18%, no rounding: gst 18.0, total 118.0
C6_Witness ==
    /\ call.fn = "calc_from_excluded"
    /\ call.args = <<Amount(10000), Rate(18), None>>
    /\ call.out = <<FFromInt(118), FFromInt(18), FFromInt(9), FFromInt(9),
                    FFromInt(100)>>

\* C7: with rounding disabled on both legs, calc_from_included applied to
\* the total of calc_from_excluded returns the base and the gst of the
\* first leg, up to the rounding error of float arithmetic (a relative
\* error of 2^-40 at most).
C7_RoundTrip ==
    (leg2.fn = "calc_from_included" /\ call.args[3] = None) =>
        /\ Close(leg2.out[1], call.args[1])
        /\ Close(leg2.out[2], call.out[2])

\* a round trip of a positive base at a positive rate that returns close
\* to, and not exactly, the base it started from
C7_Witness ==
    /\ leg2.fn = "calc_from_included"
    /\ call.args[3] = None
    /\ call.args[1] # FZero
    /\ call.args[2] # FZero
    /\ leg2.out[1] # call.args[1]
    /\ Close(leg2.out[1], call.args[1])

\* C8: with rounding 1.0 or 0.5 calc_from_excluded returns gst and total
\* each the multiple of the increment nearest to base * rate and to
\* base + base * rate, ties to the even multiple; with rounding None or 0
\* both are returned unrounded; FromExcluded(100, 0.18, 0.5) gives
\* gst 18.0 and total 118.0.
C8_ExcludedRounded ==
    call.fn = "calc_from_excluded" =>
        /\ Snapped(call.out[2], FMul(call.args[1], call.args[2]), call.args[3])
        /\ Snapped(call.out[1],
                   FAdd(call.args[1], FMul(call.args[1], call.args[2])),
                   call.args[3])
        /\ call.args = <<Amount(10000), Rate(18), Half>> =>
              /\ call.out[2] = FFromInt(18)
              /\ call.out[1] = FFromInt(118)

\* 10.00 at 5% rounded to 1: gst 0.5 is a tie and goes to 0, total 10.5
\* is a tie and goes to 10
C8_Witness ==
    /\ call.fn = "calc_from_excluded"
    /\ call.args = <<Amount(1000), Rate(5), One>>
    /\ FMul(call.args[1], call.args[2]) = Half
    /\ call.out[2] = FZero
    /\ call.out[1] = FFromInt(10)

\* C9: calc_from_included returns base = total / (1 + rate) and
\* gst = total - base, each rounded on its own to the nearest multiple of
\* the increment when rounding is 1.0 or 0.5, and total as it was passed;
\* FromIncluded(118, 0.18, 1.0) gives base 100, gst 18, total 118.
C9_IncludedRounded ==
    call.fn = "calc_from_included" =>
        /\ Snapped(call.out[1], FDiv(call.args[1], FAdd(One, call.args[2])),
                   call.args[3])
        /\ Snapped(call.out[2],
                   FSub(call.args[1], FDiv(call.args[1], FAdd(One, call.args[2]))),
                   call.args[3])
        /\ call.out[5] = call.args[1]
        /\ call.args = <<Amount(11800), Rate(18), One>> =>
              /\ call.out[1] = FFromInt(100)
              /\ call.out[2] = FFromInt(18)
              /\ call.out[5] = FFromInt(118)

\* 0.84 at 12% rounded to 0.5: base 0.5 and gst 0.0 no longer add up to
\* the total
C9_Witness ==
    /\ call.fn = "calc_from_included"
    /\ call.args = <<Amount(84), Rate(12), Half>>
    /\ call.out[1] = Half
    /\ call.out[2] = FZero
    /\ FAdd(call.out[1], call.out[2]) # call.out[5]

\* C10: for rate > 0 calc_from_gst_amount returns base = gst_amount / rate
\* and total = base + gst_amount, each rounded on its own when rounding is
\* 1.0 or 0.5, gst = gst_amount and cgst = sgst = gst_amount / 2 unrounded;
\* FromGstAmount(18, 0.18, none) gives base 100.0, total 118.0 and
\* cgst = sgst = 9.0.
C10_GstAmount ==
    (call.fn = "calc_from_gst_amount" /\ call.args[2] # FZero) =>
        /\ Snapped(call.out[1], FDiv(call.args[1], call.args[2]), call.args[3])
        /\ Snapped(call.out[2],
                   FAdd(FDiv(call.args[1], call.args[2]), call.args[1]),
                   call.args[3])
        /\ call.out[5] = call.args[1]
        /\ call.out[3] = call.out[4]
        /\ FCmp(Scale(call.out[3], 1), call.args[1]) = 0
        /\ call.args = <<Amount(1800), Rate(18), None>> =>
              /\ call.out[1] = FFromInt(100)
              /\ call.out[2] = FFromInt(118)
              /\ call.out[3] = FFromInt(9)

\* 0.12 at 18% rounded to 0.5: base 0.5 and total 1.0 rounded on their own,
\* the split 0.06 and 0.06 of the unrounded input
C10_Witness ==
    /\ call.fn = "calc_from_gst_amount"
    /\ call.args = <<Amount(12), Rate(18), Half>>
    /\ call.out[1] = Half
    /\ call.out[2] = One
    /\ call.out[5] = Amount(12)
    /\ FCmp(Scale(call.out[3], 1), Amount(12)) = 0

====
